---- MODULE Spec2Model ----
(***************************************************************************)
(* The compaction lifecycle of the Anki LLM assistant: preview             *)
(* (compact_examples), apply (apply_compaction) and rollback               *)
(* (rollback_compacted) of app/services/logic.py, run by coroutines of one *)
(* asyncio event loop against one LogicService instance and one AnkiConnect*)
(* note store.  A coroutine runs atomically from one await to the next;    *)
(* every await of a remote call (AnkiConnect RPC, LLM request, sleep) is a *)
(* step of its own, so calls interleave exactly at those points.           *)
(*                                                                         *)
(* A text is a sequence of words; the empty text is <<>>.                  *)
(***************************************************************************)
EXTENDS Integers, Sequences, FiniteSets, TLC

VARIABLES
    fields,          \* note store: note id -> field name -> text
    tags,            \* note store: note id -> set of tags
    confirm_tokens,  \* LogicService.confirm_tokens: token -> batch
    proc,            \* the coroutines: position and local variables
    returned,        \* the call that returned last: arguments, response, what it did
    issued,          \* history: every batch ever stored, by token
    redeemed,        \* history: tokens whose apply returned a summary
    owed,            \* history: note -> the values its field held before the
                     \* applies that counted it as updated, since its last restore
    calls,           \* number of calls started
    failures         \* number of remote failures so far

vars == <<fields, tags, confirm_tokens, proc, returned, issued, redeemed, owed, calls,
          failures>>

(***************************************************************************)
(* Bounds                                                                  *)
(***************************************************************************)
MaxCalls == 3        \* calls started when calls may overlap
MaxCallsLong == 5    \* calls started in the long sequential runs
MaxCallsSeq == 4     \* calls started when calls run one after the other
MaxFailures == 1     \* remote calls (store or LLM) that fail
MaxCallsRequests == 3 \* requests served, each with its own LogicService
MaxCallsEdited == 3  \* calls started while the notes are edited in Anki
MaxCallsHeadwords == 2 \* previews started while headword fields are edited in Anki
MaxCallsList == 2    \* list requests started while the notes are edited in Anki
MaxCallsFields == 3  \* calls started on notes with two content fields in use
SampleSize == 5      \* notes detect_content_field looks at

Procs == {1, 2}
Notes == {1, 2, 3}
Decks == {"D1"}
ContentFields == {"Example"}
BothFields == {"Example", "Back"}  \* the content fields when two are in use
PreviewCounts == {1}
Limits == {1, 2}     \* the limit argument, sequential use
LimitsOverlap == {2} \* the limit argument when calls may overlap
LimitsWide == {-1, 0, 1, 3}     \* limit: negative, none, fewer and more than the candidates
PreviewCountsWide == {-1, 0, 1, 3}  \* preview_count: negative, none, fewer and more than the edits
NoToken == 0         \* a token string that was never issued

(***************************************************************************)
(* The store's content                                                     *)
(***************************************************************************)
MarkerTag == "compact_examples"

BackupName(field) == field \o "_Original"

HeadwordFields == <<"Word", "Lemma", "Target", "Headword">>

\* notes 1 and 2 are in the deck the calls work on; note 3 is in another
\* deck and was compacted by an earlier run
DeckOf(n) == IF n = 3 THEN "D2" ELSE "D1"

InitialTags(n) == IF n = 3 THEN {MarkerTag} ELSE {}

InitialFields(n) ==
    CASE n = 1 -> [Word |-> <<"Cat">>, Lemma |-> <<>>, Target |-> <<>>, Headword |-> <<>>,
                   Example |-> <<"the", "Cat", "sat", "down">>, Example_Original |-> <<>>,
                   Back |-> <<"one", "Cat", "hid">>, Back_Original |-> <<>>]
      [] n = 2 -> [Word |-> <<>>, Lemma |-> <<"Dog">>, Target |-> <<>>, Headword |-> <<>>,
                   Example |-> <<"a", "Dog", "ran", "off">>, Example_Original |-> <<>>,
                   Back |-> <<"one", "Dog", "hid">>, Back_Original |-> <<>>]
      [] OTHER -> [Word |-> <<"Fox">>, Lemma |-> <<>>, Target |-> <<>>, Headword |-> <<>>,
                   Example |-> <<"a", "fox">>,
                   Example_Original |-> <<"one", "Fox", "hid">>,
                   Back |-> <<>>, Back_Original |-> <<>>]

(***************************************************************************)
(* Pure helpers                                                            *)
(***************************************************************************)
\* s[:k], a negative k counts from the end
Take(s, k) ==
    IF k >= Len(s) THEN s
    ELSE IF k >= 0 THEN SubSeq(s, 1, k)
    ELSE SubSeq(s, 1, Len(s) + k)

RECURSIVE SortedSeq(_)
SortedSeq(S) ==
    IF S = {} THEN <<>>
    ELSE LET m == CHOOSE x \in S : \A y \in S : x <= y
         IN <<m>> \o SortedSeq(S \ {m})

Lower(w) ==
    CASE w = "Cat" -> "cat"
      [] w = "Dog" -> "dog"
      [] w = "Fox" -> "fox"
      [] OTHER -> w

\* a check that accepts every answer
ContainsWordAlways(target, text) == TRUE

\* target_word.lower() in compacted.lower()
ContainsWord(target, text) ==
    \E k \in 0..(Len(text) - Len(target)) :
        \A j \in 1..Len(target) : Lower(text[k + j]) = Lower(target[j])

\* what the LLM may answer to a compaction prompt: a sentence with the
\* target word (in another case) or one without it
Rewrites(target) == { <<"a">> \o <<Lower(target[1])>>, <<"a", "pet">> }

\* AnkiConnectClient.build_query
build_query(deck, field, exclude_tag) ==
    [deck |-> deck, content |-> field, notag |-> exclude_tag, tag |-> "", has |-> ""]

\* a rollback query without the tag term
build_rollback_query_untagged(deck, field, backup_field) ==
    [deck |-> deck, content |-> "", notag |-> "", tag |-> "", has |-> backup_field]

\* AnkiConnectClient.build_rollback_query
build_rollback_query(deck, field, backup_field) ==
    [deck |-> deck, content |-> "", notag |-> "", tag |-> MarkerTag, has |-> backup_field]

\* the store's evaluation of a query
Matches(n, q) ==
    /\ q.deck # "" => DeckOf(n) = q.deck
    /\ q.content # "" => fields[n][q.content] # <<>>
    /\ q.notag # "" => q.notag \notin tags[n]
    /\ q.tag # "" => q.tag \in tags[n]
    /\ q.has # "" => q.has \in DOMAIN fields[n]

find_notes(q) == SortedSeq({n \in Notes : Matches(n, q)})

\* AnkiConnectClient.extract_headword; <<>> stands for None
RECURSIVE FirstHeadword(_, _)
FirstHeadword(note, k) ==
    IF k > Len(HeadwordFields) THEN <<>>
    ELSE IF HeadwordFields[k] \in DOMAIN note /\ note[HeadwordFields[k]] # <<>>
         THEN note[HeadwordFields[k]]
         ELSE FirstHeadword(note, k + 1)

\* str.strip(): " " is a stretch of white space
RECURSIVE StripLeft(_)
StripLeft(text) ==
    IF text # <<>> /\ Head(text) = " " THEN StripLeft(Tail(text)) ELSE text

RECURSIVE StripRight(_)
StripRight(text) ==
    IF text # <<>> /\ text[Len(text)] = " "
    THEN StripRight(SubSeq(text, 1, Len(text) - 1))
    ELSE text

Strip(text) == StripRight(StripLeft(text))

extract_headword(note) == Strip(FirstHeadword(note, 1))

\* the sentences_data loop of compact_examples
RECURSIVE SentencesData(_, _)
SentencesData(ids, field) ==
    IF ids = <<>> THEN <<>>
    ELSE LET n == Head(ids)
             headword == extract_headword(fields[n])
             rest == SentencesData(Tail(ids), field)
         IN IF headword = <<>> THEN rest
            ELSE IF field \notin DOMAIN fields[n] \/ fields[n][field] = <<>> THEN rest
            ELSE <<[note_id |-> n, target |-> headword, sentence |-> fields[n][field]]>> \o rest

\* the diffs loop of compact_examples
RECURSIVE Diffs(_)
Diffs(results) ==
    IF results = <<>> THEN <<>>
    ELSE IF Head(results).success
         THEN <<[note_id |-> Head(results).note_id, word |-> Head(results).target,
                 old |-> Head(results).original, new |-> Head(results).compacted]>>
              \o Diffs(Tail(results))
         ELSE Diffs(Tail(results))

RECURSIVE NoteIds(_)
NoteIds(diffs) ==
    IF diffs = <<>> THEN <<>> ELSE <<Head(diffs).note_id>> \o NoteIds(Tail(diffs))

(***************************************************************************)
(* Coroutines                                                              *)
(***************************************************************************)
IdleProc ==
    [pc |-> "idle", cid |-> 0, kind |-> "none",
     deck |-> "", field |-> "", preview_count |-> 0, limit |-> 0, dry_run |-> TRUE,
     token |-> NoToken,
     note_ids |-> <<>>, sentences |-> <<>>, results |-> <<>>, diffs |-> <<>>, i |-> 0,
     backup_value |-> <<>>,
     updated |-> 0, skipped |-> 0, tagged |-> 0, restored |-> 0, untagged |-> 0,
     attempted |-> 0, clean |-> TRUE, backed |-> 0, wrote |-> FALSE, before |-> <<>>,
     follows |-> "other", detected |-> ""]

\* before any call returned
NoOutcome ==
    [kind |-> "none", deck |-> "", field |-> "", dry_run |-> TRUE, token |-> NoToken,
     nedits |-> 0, nfound |-> 0, attempted |-> 0, clean |-> TRUE,
     follows |-> IdleProc.follows, resp |-> [kind |-> "none"]]

Init ==
    /\ fields = [n \in Notes |-> InitialFields(n)]
    /\ tags = [n \in Notes |-> InitialTags(n)]
    /\ confirm_tokens = <<>>
    /\ proc = [p \in Procs |-> IdleProc]
    /\ returned = NoOutcome
    /\ issued = <<>>
    /\ redeemed = {}
    /\ owed = [n \in Notes |-> {}]
    /\ calls = 0
    /\ failures = 0

MayFail == failures < MaxFailures

\* the record of a call that returned: its arguments, its response and what
\* it did
Outcome(me, resp) ==
    [kind |-> me.kind, deck |-> me.deck, field |-> me.field,
     dry_run |-> me.dry_run, token |-> me.token, nedits |-> Len(me.diffs),
     nfound |-> Len(me.note_ids), attempted |-> me.attempted, clean |-> me.clean,
     follows |-> me.follows, resp |-> resp]

Return(p, me, resp) ==
    /\ proc' = [proc EXCEPT ![p] = IdleProc]
    /\ returned' = Outcome(me, resp)

\* how a rollback that starts relates to the call that returned last: that
\* call was a rollback of the same deck and field that restored a note
\* ("restoring") or none ("idle"), with a failed remote call ("failed") or
\* by raising ("raised"); or it was another call ("other")
Follows(deck, field) ==
    IF returned.kind = "rollback" /\ returned.deck = deck /\ returned.field = field
    THEN IF returned.resp.kind = "error" THEN "raised"
         ELSE IF ~returned.clean THEN "failed"
         ELSE IF returned.resp.restored > 0 THEN "restoring" ELSE "idle"
    ELSE "other"

ErrorResp(msg) == [kind |-> "error", error |-> msg]

(***************************************************************************)
(* preview: LogicService.compact_examples                                  *)
(***************************************************************************)
StartPreview(p, deck, field, preview_count, limit, dry_run) ==
    /\ proc[p].pc = "idle"
    /\ proc' = [proc EXCEPT ![p] =
                  [IdleProc EXCEPT !.pc = "p_find", !.cid = calls + 1, !.kind = "preview",
                                   !.deck = deck, !.field = field,
                                   !.preview_count = preview_count, !.limit = limit,
                                   !.dry_run = dry_run]]
    /\ calls' = calls + 1
    /\ UNCHANGED <<owed, fields, tags, confirm_tokens, returned, issued, redeemed, failures>>

EmptyPreview ==
    [kind |-> "preview", count |-> 0, diffs |-> <<>>, needs_confirmation |-> FALSE,
     confirm_token |-> NoToken]

\* await find_notes_for_compaction, then note_ids[:limit]; notes_info of an
\* empty list returns [] without a request, and the call returns at once
PreviewFind(p) ==
    LET me == proc[p] IN
    /\ me.pc = "p_find"
    /\ UNCHANGED <<owed, fields, tags, confirm_tokens, issued, redeemed, calls>>
    /\ \/ /\ MayFail
          /\ failures' = failures + 1
          /\ Return(p, [me EXCEPT !.clean = FALSE], ErrorResp("Compaction failed"))
       \/ /\ UNCHANGED failures
          /\ LET ids == find_notes(build_query(me.deck, me.field, MarkerTag)) IN
             IF ids = <<>> \/ Take(ids, me.limit) = <<>>
             THEN Return(p, me, EmptyPreview)
             ELSE /\ proc' = [proc EXCEPT ![p] =
                                [me EXCEPT !.pc = "p_info", !.note_ids = Take(ids, me.limit)]]
                  /\ UNCHANGED returned

\* await notes_info, then the sentences_data loop
PreviewInfo(p) ==
    LET me == proc[p] IN
    /\ me.pc = "p_info"
    /\ UNCHANGED <<owed, fields, tags, confirm_tokens, issued, redeemed, calls>>
    /\ \/ /\ MayFail
          /\ failures' = failures + 1
          /\ Return(p, [me EXCEPT !.clean = FALSE], ErrorResp("Compaction failed"))
       \/ /\ UNCHANGED failures
          /\ LET data == SentencesData(me.note_ids, me.field) IN
             IF data = <<>>
             THEN Return(p, me, EmptyPreview)
             ELSE /\ proc' = [proc EXCEPT ![p] =
                                [me EXCEPT !.pc = "p_llm1", !.sentences = data, !.i = 1]]
                  /\ UNCHANGED returned

\* a token minted for a dry run too
ShouldMintDryRun(dry_run, diffs) == diffs # <<>>

\* the token is minted only for a confirmed, non-empty batch
ShouldMint(dry_run, diffs) == ~dry_run /\ diffs # <<>>

\* a generator that produces the same string again
NewTokenReused(me) == 1

\* secrets.token_urlsafe(16): a string no earlier call produced
NewToken(me) == me.cid

\* the store after every diff's new text was written into its note
RECURSIVE WriteAll(_, _, _)
WriteAll(store, field, diffs) ==
    IF diffs = <<>> THEN store
    ELSE WriteAll([store EXCEPT ![Head(diffs).note_id][field] = Head(diffs).new],
                  field, Tail(diffs))

\* a preview that writes its diffs when it is not a dry run
PreviewFinishApplying(p, me, results) ==
    /\ fields' = IF me.dry_run THEN fields ELSE WriteAll(fields, me.field, Diffs(results))
    /\ UNCHANGED <<tags, confirm_tokens, issued>>
    /\ Return(p, [me EXCEPT !.diffs = Diffs(results), !.results = results],
              [kind |-> "preview", count |-> Len(Diffs(results)),
               diffs |-> Take(Diffs(results), me.preview_count),
               needs_confirmation |-> FALSE, confirm_token |-> NoToken])

\* compact_examples from the diffs loop to its return
PreviewFinish(p, me, results) ==
    LET diffs == Diffs(results)
        mint == ShouldMint(me.dry_run, diffs)
        token == IF mint THEN NewToken(me) ELSE NoToken
        batch == [deck |-> me.deck, field |-> me.field, note_ids |-> NoteIds(diffs),
                  diffs |-> diffs]
        resp == [kind |-> "preview", count |-> Len(diffs),
                 diffs |-> Take(diffs, me.preview_count),
                 needs_confirmation |-> (~me.dry_run /\ diffs # <<>>),
                 confirm_token |-> token]
    IN
    /\ confirm_tokens' = IF mint
                         THEN [t \in DOMAIN confirm_tokens \cup {token} |->
                                 IF t = token THEN batch ELSE confirm_tokens[t]]
                         ELSE confirm_tokens
    /\ issued' = IF mint
                 THEN [t \in DOMAIN issued \cup {token} |->
                         IF t = token THEN [batch |-> batch, dry_run |-> me.dry_run]
                         ELSE issued[t]]
                 ELSE issued
    /\ UNCHANGED <<fields, tags>>
    /\ Return(p, [me EXCEPT !.diffs = diffs, !.results = results], resp)

LlmResult(data, compacted, success) ==
    [note_id |-> data.note_id, target |-> data.target, original |-> data.sentence,
     compacted |-> compacted, success |-> success]

\* compact_multiple_sentences after a sentence that was compacted
LlmSucceeded(p, me, compacted) ==
    LET results == Append(me.results, LlmResult(me.sentences[me.i], compacted, TRUE)) IN
    IF me.i < Len(me.sentences)
    THEN /\ proc' = [proc EXCEPT ![p] = [me EXCEPT !.results = results, !.pc = "p_sleep"]]
         /\ UNCHANGED <<fields, tags, confirm_tokens, issued, returned>>
    ELSE PreviewFinish(p, me, results)

\* compact_multiple_sentences after a sentence whose compaction raised
LlmFailed(p, me) ==
    LET results == Append(me.results, LlmResult(me.sentences[me.i], <<>>, FALSE)) IN
    IF me.i < Len(me.sentences)
    THEN /\ proc' = [proc EXCEPT ![p] =
                       [me EXCEPT !.results = results, !.i = me.i + 1, !.pc = "p_llm1"]]
         /\ UNCHANGED <<fields, tags, confirm_tokens, issued, returned>>
    ELSE PreviewFinish(p, me, results)

\* compact_sentence: the first request
LlmFirst(p) ==
    LET me == proc[p] IN
    /\ me.pc = "p_llm1"
    /\ UNCHANGED <<owed, redeemed, calls>>
    /\ \/ /\ MayFail
          /\ failures' = failures + 1
          /\ LlmFailed(p, [me EXCEPT !.clean = FALSE])
       \/ /\ UNCHANGED failures
          /\ \E out \in Rewrites(me.sentences[me.i].target) :
                IF ContainsWord(me.sentences[me.i].target, out)
                THEN LlmSucceeded(p, me, out)
                ELSE /\ proc' = [proc EXCEPT ![p] = [me EXCEPT !.pc = "p_llm2"]]
                     /\ UNCHANGED <<fields, tags, confirm_tokens, issued, returned>>

\* compact_sentence: the retry
LlmRetry(p) ==
    LET me == proc[p] IN
    /\ me.pc = "p_llm2"
    /\ UNCHANGED <<owed, redeemed, calls>>
    /\ \/ /\ MayFail
          /\ failures' = failures + 1
          /\ LlmFailed(p, [me EXCEPT !.clean = FALSE])
       \/ /\ UNCHANGED failures
          /\ \E out \in Rewrites(me.sentences[me.i].target) :
                IF ContainsWord(me.sentences[me.i].target, out)
                THEN LlmSucceeded(p, me, out)
                ELSE LlmFailed(p, me)

\* compact_multiple_sentences: asyncio.sleep between two sentences
LlmSleep(p) ==
    LET me == proc[p] IN
    /\ me.pc = "p_sleep"
    /\ proc' = [proc EXCEPT ![p] = [me EXCEPT !.i = me.i + 1, !.pc = "p_llm1"]]
    /\ UNCHANGED <<owed, fields, tags, confirm_tokens, returned, issued, redeemed, calls, failures>>

(***************************************************************************)
(* apply: LogicService.apply_compaction                                    *)
(***************************************************************************)
\* confirm_token not in self.confirm_tokens
TokenMissing(token) == token \notin DOMAIN confirm_tokens

\* a del that is forgotten
RemoveTokenForgotten(store, token) == store

\* a clean-up that drops every pending batch
RemoveTokenAll(store, token) == <<>>

\* del self.confirm_tokens[confirm_token]
RemoveToken(store, token) == [t \in DOMAIN store \ {token} |-> store[t]]

\* apply_compaction from the end of the loop to its return; the del raises
\* KeyError when the token is gone, which the outer handler turns into
\* "Application failed"
ApplyFinish(p, me) ==
    IF me.token \in DOMAIN confirm_tokens
    THEN /\ confirm_tokens' = RemoveToken(confirm_tokens, me.token)
         /\ redeemed' = redeemed \cup {me.token}
         /\ Return(p, me, [kind |-> "apply", updated |-> me.updated,
                           skipped |-> me.skipped, tagged |-> me.tagged])
    ELSE /\ UNCHANGED <<confirm_tokens, redeemed>>
         /\ Return(p, me, ErrorResp("Application failed"))

\* the for loop of apply_compaction moving to its next diff
ApplyNext(p, me) ==
    IF me.i < Len(me.diffs)
    THEN /\ proc' = [proc EXCEPT ![p] =
                       [me EXCEPT !.i = me.i + 1, !.pc = "a_bk_read", !.backup_value = <<>>,
                                  !.attempted = me.attempted + 1, !.backed = 0,
                                  !.before = <<>>]]
         /\ UNCHANGED <<confirm_tokens, redeemed, returned>>
    ELSE ApplyFinish(p, me)

\* a failed note that is not counted
ApplySkipUncounted(p, me) == ApplyNext(p, me)

\* a failed note that ends the call
ApplySkipRaising(p, me) ==
    /\ Return(p, me, ErrorResp("Application failed"))
    /\ UNCHANGED <<confirm_tokens, redeemed>>

\* skipped += 1, on a failed backup and in the except branch of the loop
ApplySkip(p, me) == ApplyNext(p, [me EXCEPT !.skipped = me.skipped + 1])

\* a rejection that also drops the pending batches
RejectTokenPurging(p, me) ==
    /\ Return(p, me, ErrorResp("Invalid confirmation token"))
    /\ confirm_tokens' = <<>>
    /\ UNCHANGED redeemed

\* raise LogicServiceError("Invalid confirmation token")
RejectToken(p, me) ==
    /\ Return(p, me, ErrorResp("Invalid confirmation token"))
    /\ UNCHANGED <<confirm_tokens, redeemed>>

\* the synchronous head of apply_compaction: the token check and token_data
ApplyStart(p, token) ==
    /\ proc[p].pc = "idle"
    /\ calls' = calls + 1
    /\ UNCHANGED <<owed, fields, tags, issued, failures>>
    /\ LET me == [IdleProc EXCEPT !.cid = calls + 1, !.kind = "apply", !.token = token] IN
       IF TokenMissing(token)
       THEN RejectToken(p, me)
       ELSE LET token_data == confirm_tokens[token] IN
            ApplyNext(p, [me EXCEPT !.deck = token_data.deck, !.field = token_data.field,
                                    !.note_ids = token_data.note_ids,
                                    !.diffs = token_data.diffs])

\* a check that lets every note through
BackupUnreadableNever(n, field) == FALSE

\* backup_field: field not in fields or not fields[field]["value"]
BackupUnreadable(n, field) == field \notin DOMAIN fields[n] \/ fields[n][field] = <<>>

\* backup_field: await notes_info and the checks on the note
BackupRead(p) ==
    LET me == proc[p]
        n == me.diffs[me.i].note_id
    IN
    /\ me.pc = "a_bk_read"
    /\ UNCHANGED <<owed, fields, tags, issued, calls>>
    /\ \/ /\ MayFail
          /\ failures' = failures + 1
          /\ ApplySkip(p, [me EXCEPT !.clean = FALSE])
       \/ /\ UNCHANGED failures
          /\ IF BackupUnreadable(n, me.field)
             THEN ApplySkip(p, me)
             ELSE /\ proc' = [proc EXCEPT ![p] =
                                [me EXCEPT !.backup_value = fields[n][me.field],
                                           !.pc = "a_bk_write"]]
                  /\ UNCHANGED <<confirm_tokens, redeemed, returned>>

\* a backup that copies the rewritten text instead of the value read
BackupWriteValueNew(me) == me.diffs[me.i].new

\* the value backup_field writes into the backup field
BackupWriteValue(me) == me.backup_value

\* backup_field: await update_note_fields(note_id, {backup_field: backup_value})
BackupWrite(p) ==
    LET me == proc[p]
        n == me.diffs[me.i].note_id
    IN
    /\ me.pc = "a_bk_write"
    /\ UNCHANGED <<owed, tags, issued, calls>>
    /\ \/ /\ MayFail
          /\ failures' = failures + 1
          /\ UNCHANGED fields
          /\ ApplySkip(p, [me EXCEPT !.clean = FALSE])
       \/ /\ UNCHANGED failures
          /\ fields' = [fields EXCEPT ![n][BackupName(me.field)] = BackupWriteValue(me)]
          /\ proc' = [proc EXCEPT ![p] =
                        [me EXCEPT !.pc = "a_write", !.backed = n, !.wrote = TRUE]]
          /\ UNCHANGED <<confirm_tokens, redeemed, returned>>

\* await update_note_fields(diff.note_id, {field: diff.new})
ApplyWrite(p) ==
    LET me == proc[p]
        n == me.diffs[me.i].note_id
    IN
    /\ me.pc = "a_write"
    /\ UNCHANGED <<owed, tags, issued, calls>>
    /\ \/ /\ MayFail
          /\ failures' = failures + 1
          /\ UNCHANGED fields
          /\ ApplySkip(p, [me EXCEPT !.clean = FALSE])
       \/ /\ UNCHANGED failures
          /\ fields' = [fields EXCEPT ![n][me.field] = me.diffs[me.i].new]
          /\ proc' = [proc EXCEPT ![p] =
                        [me EXCEPT !.pc = "a_tag", !.wrote = TRUE,
                                   !.before = fields[n][me.field]]]
          /\ UNCHANGED <<confirm_tokens, redeemed, returned>>

\* await add_tags([diff.note_id], "compact_examples"), then the counters
ApplyTag(p) ==
    LET me == proc[p]
        n == me.diffs[me.i].note_id
    IN
    /\ me.pc = "a_tag"
    /\ UNCHANGED <<fields, issued, calls>>
    /\ \/ /\ MayFail
          /\ failures' = failures + 1
          /\ UNCHANGED <<tags, owed>>
          /\ ApplySkip(p, [me EXCEPT !.clean = FALSE])
       \/ /\ UNCHANGED failures
          /\ tags' = [tags EXCEPT ![n] = @ \cup {MarkerTag}]
          /\ owed' = [owed EXCEPT ![n] = @ \cup {me.before}]
          /\ ApplyNext(p, [me EXCEPT !.updated = me.updated + 1,
                                     !.tagged = me.tagged + 1, !.wrote = TRUE])

(***************************************************************************)
(* rollback: LogicService.rollback_compacted                               *)
(***************************************************************************)
StartRollback(p, deck, field) ==
    /\ proc[p].pc = "idle"
    /\ proc' = [proc EXCEPT ![p] =
                  [IdleProc EXCEPT !.pc = "r_find", !.cid = calls + 1, !.kind = "rollback",
                                   !.deck = deck, !.field = field,
                                   !.follows = Follows(deck, field)]]
    /\ calls' = calls + 1
    /\ UNCHANGED <<owed, fields, tags, confirm_tokens, returned, issued, redeemed, failures>>

RollbackFinish(p, me) ==
    Return(p, me, [kind |-> "rollback", restored |-> me.restored, untagged |-> me.untagged])

\* the for loop of rollback_compacted moving to its next note
RollbackNext(p, me) ==
    IF me.i < Len(me.note_ids)
    THEN /\ proc' = [proc EXCEPT ![p] =
                       [me EXCEPT !.i = me.i + 1, !.pc = "r_info", !.backup_value = <<>>,
                                  !.attempted = me.attempted + 1]]
         /\ UNCHANGED returned
    ELSE RollbackFinish(p, me)

\* await find_notes_for_rollback
RollbackFind(p) ==
    LET me == proc[p] IN
    /\ me.pc = "r_find"
    /\ UNCHANGED <<owed, fields, tags, confirm_tokens, issued, redeemed, calls>>
    /\ \/ /\ MayFail
          /\ failures' = failures + 1
          /\ Return(p, [me EXCEPT !.clean = FALSE], ErrorResp("Rollback failed"))
       \/ /\ UNCHANGED failures
          /\ LET ids == find_notes(build_rollback_query(me.deck, me.field,
                                                        BackupName(me.field)))
             IN RollbackNext(p, [me EXCEPT !.note_ids = ids])

\* await notes_info([note_id]) and the check of the backup field
RollbackInfo(p) ==
    LET me == proc[p]
        n == me.note_ids[me.i]
        backup_field == BackupName(me.field)
    IN
    /\ me.pc = "r_info"
    /\ UNCHANGED <<owed, fields, tags, confirm_tokens, issued, redeemed, calls>>
    /\ \/ /\ MayFail
          /\ failures' = failures + 1
          /\ RollbackNext(p, [me EXCEPT !.clean = FALSE])
       \/ /\ UNCHANGED failures
          /\ IF backup_field \notin DOMAIN fields[n] \/ fields[n][backup_field] = <<>>
             THEN RollbackNext(p, me)
             ELSE /\ proc' = [proc EXCEPT ![p] =
                                [me EXCEPT !.backup_value = fields[n][backup_field],
                                           !.pc = "r_write"]]
                  /\ UNCHANGED returned

\* await update_note_fields(note_id, {field: fields[backup_field]["value"]})
RollbackWrite(p) ==
    LET me == proc[p]
        n == me.note_ids[me.i]
    IN
    /\ me.pc = "r_write"
    /\ UNCHANGED <<owed, tags, confirm_tokens, issued, redeemed, calls>>
    /\ \/ /\ MayFail
          /\ failures' = failures + 1
          /\ UNCHANGED fields
          /\ RollbackNext(p, [me EXCEPT !.clean = FALSE])
       \/ /\ UNCHANGED failures
          /\ fields' = [fields EXCEPT ![n][me.field] = me.backup_value]
          /\ proc' = [proc EXCEPT ![p] = [me EXCEPT !.pc = "r_untag"]]
          /\ UNCHANGED returned

\* a removeTags that leaves the tag
RemoveTagKept(ts, tag) == ts

\* the store's removeTags
RemoveTag(ts, tag) == ts \ {tag}

\* await remove_tags([note_id], "compact_examples"), then the counters
RollbackUntag(p) ==
    LET me == proc[p]
        n == me.note_ids[me.i]
    IN
    /\ me.pc = "r_untag"
    /\ UNCHANGED <<fields, confirm_tokens, issued, redeemed, calls>>
    /\ \/ /\ MayFail
          /\ failures' = failures + 1
          /\ UNCHANGED <<tags, owed>>
          /\ RollbackNext(p, [me EXCEPT !.clean = FALSE])
       \/ /\ UNCHANGED failures
          /\ tags' = [tags EXCEPT ![n] = RemoveTag(@, MarkerTag)]
          /\ owed' = [owed EXCEPT ![n] = {}]
          /\ RollbackNext(p, [me EXCEPT !.restored = me.restored + 1,
                                        !.untagged = me.untagged + 1])

(***************************************************************************)
(* list: LogicService.list_longest_examples                                *)
(***************************************************************************)
\* the fields of a note, in the order of its note type
FieldOrder == <<"Word", "Lemma", "Target", "Headword", "Example", "Example_Original",
               "Back", "Back_Original">>

PriorityFields == <<"Example", "Back", "Front", "Definition", "Meaning", "Translation">>

\* len() of a word
CharLen(w) == CASE w \in {"a", " "} -> 1
                [] w = "down" -> 4
                [] OTHER -> 3

\* len() of a text: its words and the blanks between them
RECURSIVE TextLen(_)
TextLen(text) ==
    IF text = <<>> THEN 0
    ELSE IF Len(text) = 1 THEN CharLen(text[1])
    ELSE CharLen(Head(text)) + 1 + TextLen(Tail(text))

\* len(example_text.split())
RECURSIVE WordCount(_)
WordCount(text) ==
    IF text = <<>> THEN 0
    ELSE (IF Head(text) = " " THEN 0 ELSE 1) + WordCount(Tail(text))

\* field_stats[name][0]: the characters of the field over the sampled notes
RECURSIVE TotalChars(_, _)
TotalChars(ids, name) ==
    IF ids = <<>> THEN 0
    ELSE (IF name \in DOMAIN fields[Head(ids)]
          THEN TextLen(Strip(fields[Head(ids)][name])) ELSE 0)
         + TotalChars(Tail(ids), name)

\* field_stats[name][1]: the sampled notes in which the field has content
RECURSIVE NonEmptyCount(_, _)
NonEmptyCount(ids, name) ==
    IF ids = <<>> THEN 0
    ELSE (IF name \in DOMAIN fields[Head(ids)] /\ Strip(fields[Head(ids)][name]) # <<>>
          THEN 1 ELSE 0)
         + NonEmptyCount(Tail(ids), name)

\* the key of max(): x[1][0] / max(x[1][1], 1), compared without division
AvgLess(ids, f, g) ==
    LET df == IF NonEmptyCount(ids, f) > 1 THEN NonEmptyCount(ids, f) ELSE 1
        dg == IF NonEmptyCount(ids, g) > 1 THEN NonEmptyCount(ids, g) ELSE 1
    IN TotalChars(ids, f) * dg < TotalChars(ids, g) * df

\* detect_content_field after its sample was fetched; "" stands for None
DetectField(ids) ==
    LET stats == {name \in DOMAIN fields[ids[1]] \cup {} :
                     \E k \in 1..Len(ids) : name \in DOMAIN fields[ids[k]]}
        prio == {k \in 1..Len(PriorityFields) :
                     /\ PriorityFields[k] \in stats
                     /\ NonEmptyCount(ids, PriorityFields[k]) > 0}
        ordered == SelectSeq(FieldOrder, LAMBDA name : name \in stats)
        best == CHOOSE k \in 1..Len(ordered) :
                    /\ \A j \in 1..Len(ordered) : ~AvgLess(ids, ordered[k], ordered[j])
                    /\ \A j \in 1..(k - 1) : AvgLess(ids, ordered[j], ordered[k])
    IN IF prio # {}
       THEN PriorityFields[CHOOSE k \in prio : \A j \in prio : k <= j]
       ELSE IF ordered # <<>> /\ NonEmptyCount(ids, ordered[best]) > 0
            THEN ordered[best]
            ELSE ""

\* the examples loop of list_longest_examples
RECURSIVE Examples(_, _)
Examples(ids, field) ==
    IF ids = <<>> THEN <<>>
    ELSE LET n == Head(ids) IN
         IF field \in DOMAIN fields[n] /\ fields[n][field] # <<>>
         THEN <<[note_id |-> n, length |-> WordCount(fields[n][field]),
                 example |-> fields[n][field]]>> \o Examples(Tail(ids), field)
         ELSE Examples(Tail(ids), field)

\* examples.sort(key=length, reverse=True): stable, the longest first
RECURSIVE InsertByLength(_, _)
InsertByLength(ex, sorted) ==
    IF sorted = <<>> THEN <<ex>>
    ELSE IF Head(sorted).length >= ex.length
         THEN <<Head(sorted)>> \o InsertByLength(ex, Tail(sorted))
         ELSE <<ex>> \o sorted

RECURSIVE SortByLength(_)
SortByLength(examples) ==
    IF examples = <<>> THEN <<>>
    ELSE InsertByLength(examples[Len(examples)],
                        SortByLength(SubSeq(examples, 1, Len(examples) - 1)))

EmptyList == [kind |-> "list", items |-> <<>>, total_found |-> 0]

StartList(p, deck, field, limit) ==
    /\ proc[p].pc = "idle"
    /\ proc' = [proc EXCEPT ![p] =
                  [IdleProc EXCEPT !.pc = "l_find", !.cid = calls + 1, !.kind = "list",
                                   !.deck = deck, !.field = field, !.limit = limit]]
    /\ calls' = calls + 1
    /\ UNCHANGED <<owed, fields, tags, confirm_tokens, returned, issued, redeemed, failures>>

\* await find_notes(build_query(deck, field)), then the choice of auto-detection
ListFind(p) ==
    LET me == proc[p] IN
    /\ me.pc = "l_find"
    /\ UNCHANGED <<owed, fields, tags, confirm_tokens, issued, redeemed, calls>>
    /\ \/ /\ MayFail
          /\ failures' = failures + 1
          /\ Return(p, [me EXCEPT !.clean = FALSE], ErrorResp("Listing failed"))
       \/ /\ UNCHANGED failures
          /\ LET ids == find_notes(build_query(me.deck, me.field, "")) IN
             IF ids = <<>> /\ me.field = "Example"
             THEN /\ proc' = [proc EXCEPT ![p] = [me EXCEPT !.pc = "l_detect_find"]]
                  /\ UNCHANGED returned
             ELSE IF ids = <<>>
                  THEN Return(p, me, EmptyList)
                  ELSE /\ proc' = [proc EXCEPT ![p] =
                                     [me EXCEPT !.pc = "l_info", !.note_ids = ids]]
                       /\ UNCHANGED returned

\* detect_content_field: await find_notes(deck:"<deck>"); every exception
\* makes it return None
ListDetectFind(p) ==
    LET me == proc[p] IN
    /\ me.pc = "l_detect_find"
    /\ UNCHANGED <<owed, fields, tags, confirm_tokens, issued, redeemed, calls>>
    /\ \/ /\ MayFail
          /\ failures' = failures + 1
          /\ Return(p, [me EXCEPT !.clean = FALSE], EmptyList)
       \/ /\ UNCHANGED failures
          /\ LET sample_notes == find_notes([deck |-> me.deck, content |-> "", notag |-> "",
                                             tag |-> "", has |-> ""])
             IN IF sample_notes = <<>>
                THEN Return(p, me, EmptyList)
                ELSE /\ proc' = [proc EXCEPT ![p] =
                                   [me EXCEPT !.pc = "l_detect_info",
                                              !.note_ids = Take(sample_notes, SampleSize)]]
                     /\ UNCHANGED returned

\* detect_content_field: await notes_info of the sample and the choice of the
\* field
ListDetectInfo(p) ==
    LET me == proc[p] IN
    /\ me.pc = "l_detect_info"
    /\ UNCHANGED <<owed, fields, tags, confirm_tokens, issued, redeemed, calls>>
    /\ \/ /\ MayFail
          /\ failures' = failures + 1
          /\ Return(p, [me EXCEPT !.clean = FALSE], EmptyList)
       \/ /\ UNCHANGED failures
          /\ IF DetectField(me.note_ids) = ""
             THEN Return(p, me, EmptyList)
             ELSE /\ proc' = [proc EXCEPT ![p] =
                                [me EXCEPT !.pc = "l_find2", !.note_ids = <<>>,
                                           !.detected = DetectField(me.note_ids)]]
                  /\ UNCHANGED returned

\* await find_notes(build_query(deck, detected_field))
ListFindDetected(p) ==
    LET me == proc[p] IN
    /\ me.pc = "l_find2"
    /\ UNCHANGED <<owed, fields, tags, confirm_tokens, issued, redeemed, calls>>
    /\ \/ /\ MayFail
          /\ failures' = failures + 1
          /\ Return(p, [me EXCEPT !.clean = FALSE], ErrorResp("Listing failed"))
       \/ /\ UNCHANGED failures
          /\ LET ids == find_notes(build_query(me.deck, me.detected, "")) IN
             IF ids = <<>>
             THEN Return(p, me, EmptyList)
             ELSE /\ proc' = [proc EXCEPT ![p] =
                                [me EXCEPT !.pc = "l_info", !.note_ids = ids]]
                  /\ UNCHANGED returned

\* await notes_info(note_ids), then the examples, the sort and the response
ListInfo(p) ==
    LET me == proc[p]
        field == IF me.detected # "" THEN me.detected ELSE me.field
    IN
    /\ me.pc = "l_info"
    /\ UNCHANGED <<owed, fields, tags, confirm_tokens, issued, redeemed, calls>>
    /\ \/ /\ MayFail
          /\ failures' = failures + 1
          /\ Return(p, [me EXCEPT !.clean = FALSE], ErrorResp("Listing failed"))
       \/ /\ UNCHANGED failures
          /\ LET examples == SortByLength(Examples(me.note_ids, field)) IN
             Return(p, me, [kind |-> "list", items |-> Take(examples, me.limit),
                            total_found |-> Len(examples)])

(***************************************************************************)
(* CompactionService of app/services/compaction.py: compact_examples,      *)
(* apply_compaction and rollback_compacted, with the steps of the shared   *)
(* AnkiConnectClient and LLMService calls they await                       *)
(***************************************************************************)
\* the sentences_data loop of compact_examples
RECURSIVE CompactionSentencesData(_, _)
CompactionSentencesData(ids, field) ==
    IF ids = <<>> THEN <<>>
    ELSE LET n == Head(ids)
             headword == extract_headword(fields[n])
             rest == CompactionSentencesData(Tail(ids), field)
         IN IF headword = <<>> THEN rest
            ELSE IF field \notin DOMAIN fields[n] \/ fields[n][field] = <<>> THEN rest
            ELSE <<[note_id |-> n, target |-> headword, sentence |-> fields[n][field]]>> \o rest

\* the diffs loop of compact_examples
RECURSIVE CompactionDiffs(_)
CompactionDiffs(results) ==
    IF results = <<>> THEN <<>>
    ELSE IF Head(results).success
         THEN <<[note_id |-> Head(results).note_id, word |-> Head(results).target,
                 old |-> Head(results).original, new |-> Head(results).compacted]>>
              \o CompactionDiffs(Tail(results))
         ELSE CompactionDiffs(Tail(results))

RECURSIVE CompactionNoteIds(_)
CompactionNoteIds(diffs) ==
    IF diffs = <<>> THEN <<>> ELSE <<Head(diffs).note_id>> \o CompactionNoteIds(Tail(diffs))

CompactionStartPreview(p, deck, field, preview_count, limit, dry_run) ==
    /\ proc[p].pc = "idle"
    /\ proc' = [proc EXCEPT ![p] =
                  [IdleProc EXCEPT !.pc = "p_find", !.cid = calls + 1, !.kind = "preview",
                                   !.deck = deck, !.field = field,
                                   !.preview_count = preview_count, !.limit = limit,
                                   !.dry_run = dry_run]]
    /\ calls' = calls + 1
    /\ UNCHANGED <<owed, fields, tags, confirm_tokens, returned, issued, redeemed, failures>>

CompactionEmptyPreview ==
    [kind |-> "preview", count |-> 0, diffs |-> <<>>, needs_confirmation |-> FALSE,
     confirm_token |-> NoToken]

\* await find_notes_for_compaction, then note_ids[:limit]; notes_info of an
\* empty list returns [] without a request, and the call returns at once
CompactionPreviewFind(p) ==
    LET me == proc[p] IN
    /\ me.pc = "p_find"
    /\ UNCHANGED <<owed, fields, tags, confirm_tokens, issued, redeemed, calls>>
    /\ \/ /\ MayFail
          /\ failures' = failures + 1
          /\ Return(p, [me EXCEPT !.clean = FALSE], ErrorResp("Compaction failed"))
       \/ /\ UNCHANGED failures
          /\ LET ids == find_notes(build_query(me.deck, me.field, MarkerTag)) IN
             IF ids = <<>> \/ Take(ids, me.limit) = <<>>
             THEN Return(p, me, CompactionEmptyPreview)
             ELSE /\ proc' = [proc EXCEPT ![p] =
                                [me EXCEPT !.pc = "p_info", !.note_ids = Take(ids, me.limit)]]
                  /\ UNCHANGED returned

\* await notes_info, then the sentences_data loop
CompactionPreviewInfo(p) ==
    LET me == proc[p] IN
    /\ me.pc = "p_info"
    /\ UNCHANGED <<owed, fields, tags, confirm_tokens, issued, redeemed, calls>>
    /\ \/ /\ MayFail
          /\ failures' = failures + 1
          /\ Return(p, [me EXCEPT !.clean = FALSE], ErrorResp("Compaction failed"))
       \/ /\ UNCHANGED failures
          /\ LET data == CompactionSentencesData(me.note_ids, me.field) IN
             IF data = <<>>
             THEN Return(p, me, CompactionEmptyPreview)
             ELSE /\ proc' = [proc EXCEPT ![p] =
                                [me EXCEPT !.pc = "p_llm1", !.sentences = data, !.i = 1]]
                  /\ UNCHANGED returned

\* the token is minted only for a confirmed, non-empty batch
CompactionShouldMint(dry_run, diffs) == ~dry_run /\ diffs # <<>>

\* secrets.token_urlsafe(16): a string no earlier call produced
CompactionNewToken(me) == me.cid

\* compact_examples from the diffs loop to its return
CompactionPreviewFinish(p, me, results) ==
    LET diffs == CompactionDiffs(results)
        mint == CompactionShouldMint(me.dry_run, diffs)
        token == IF mint THEN CompactionNewToken(me) ELSE NoToken
        batch == [deck |-> me.deck, field |-> me.field, note_ids |-> CompactionNoteIds(diffs),
                  diffs |-> diffs]
        resp == [kind |-> "preview", count |-> Len(diffs),
                 diffs |-> Take(diffs, me.preview_count),
                 needs_confirmation |-> (~me.dry_run /\ diffs # <<>>),
                 confirm_token |-> token]
    IN
    /\ confirm_tokens' = IF mint
                         THEN [t \in DOMAIN confirm_tokens \cup {token} |->
                                 IF t = token THEN batch ELSE confirm_tokens[t]]
                         ELSE confirm_tokens
    /\ issued' = IF mint
                 THEN [t \in DOMAIN issued \cup {token} |->
                         IF t = token THEN [batch |-> batch, dry_run |-> me.dry_run]
                         ELSE issued[t]]
                 ELSE issued
    /\ UNCHANGED <<fields, tags>>
    /\ Return(p, [me EXCEPT !.diffs = diffs, !.results = results], resp)

\* compact_multiple_sentences after a sentence that was compacted
CompactionLlmSucceeded(p, me, compacted) ==
    LET results == Append(me.results, LlmResult(me.sentences[me.i], compacted, TRUE)) IN
    IF me.i < Len(me.sentences)
    THEN /\ proc' = [proc EXCEPT ![p] = [me EXCEPT !.results = results, !.pc = "p_sleep"]]
         /\ UNCHANGED <<fields, tags, confirm_tokens, issued, returned>>
    ELSE CompactionPreviewFinish(p, me, results)

\* compact_multiple_sentences after a sentence whose compaction raised
CompactionLlmFailed(p, me) ==
    LET results == Append(me.results, LlmResult(me.sentences[me.i], <<>>, FALSE)) IN
    IF me.i < Len(me.sentences)
    THEN /\ proc' = [proc EXCEPT ![p] =
                       [me EXCEPT !.results = results, !.i = me.i + 1, !.pc = "p_llm1"]]
         /\ UNCHANGED <<fields, tags, confirm_tokens, issued, returned>>
    ELSE CompactionPreviewFinish(p, me, results)

\* compact_sentence: the first request
CompactionLlmFirst(p) ==
    LET me == proc[p] IN
    /\ me.pc = "p_llm1"
    /\ UNCHANGED <<owed, redeemed, calls>>
    /\ \/ /\ MayFail
          /\ failures' = failures + 1
          /\ CompactionLlmFailed(p, [me EXCEPT !.clean = FALSE])
       \/ /\ UNCHANGED failures
          /\ \E out \in Rewrites(me.sentences[me.i].target) :
                IF ContainsWord(me.sentences[me.i].target, out)
                THEN CompactionLlmSucceeded(p, me, out)
                ELSE /\ proc' = [proc EXCEPT ![p] = [me EXCEPT !.pc = "p_llm2"]]
                     /\ UNCHANGED <<fields, tags, confirm_tokens, issued, returned>>

\* compact_sentence: the retry
CompactionLlmRetry(p) ==
    LET me == proc[p] IN
    /\ me.pc = "p_llm2"
    /\ UNCHANGED <<owed, redeemed, calls>>
    /\ \/ /\ MayFail
          /\ failures' = failures + 1
          /\ CompactionLlmFailed(p, [me EXCEPT !.clean = FALSE])
       \/ /\ UNCHANGED failures
          /\ \E out \in Rewrites(me.sentences[me.i].target) :
                IF ContainsWord(me.sentences[me.i].target, out)
                THEN CompactionLlmSucceeded(p, me, out)
                ELSE CompactionLlmFailed(p, me)

\* compact_multiple_sentences: asyncio.sleep between two sentences
CompactionLlmSleep(p) ==
    LET me == proc[p] IN
    /\ me.pc = "p_sleep"
    /\ proc' = [proc EXCEPT ![p] = [me EXCEPT !.i = me.i + 1, !.pc = "p_llm1"]]
    /\ UNCHANGED <<owed, fields, tags, confirm_tokens, returned, issued, redeemed, calls, failures>>

\* confirm_token not in self.confirm_tokens
CompactionTokenMissing(token) == token \notin DOMAIN confirm_tokens

\* del self.confirm_tokens[confirm_token]
CompactionRemoveToken(store, token) == [t \in DOMAIN store \ {token} |-> store[t]]

\* apply_compaction from the end of the loop to its return; the del raises
\* KeyError when the token is gone, which the outer handler turns into
\* "Application failed"
CompactionApplyFinish(p, me) ==
    IF me.token \in DOMAIN confirm_tokens
    THEN /\ confirm_tokens' = CompactionRemoveToken(confirm_tokens, me.token)
         /\ redeemed' = redeemed \cup {me.token}
         /\ Return(p, me, [kind |-> "apply", updated |-> me.updated,
                           skipped |-> me.skipped, tagged |-> me.tagged])
    ELSE /\ UNCHANGED <<confirm_tokens, redeemed>>
         /\ Return(p, me, ErrorResp("Application failed"))

\* the for loop of apply_compaction moving to its next diff
CompactionApplyNext(p, me) ==
    IF me.i < Len(me.diffs)
    THEN /\ proc' = [proc EXCEPT ![p] =
                       [me EXCEPT !.i = me.i + 1, !.pc = "a_bk_read", !.backup_value = <<>>,
                                  !.attempted = me.attempted + 1, !.backed = 0,
                                  !.before = <<>>]]
         /\ UNCHANGED <<confirm_tokens, redeemed, returned>>
    ELSE CompactionApplyFinish(p, me)

\* skipped += 1, on a failed backup and in the except branch of the loop
CompactionApplySkip(p, me) == CompactionApplyNext(p, [me EXCEPT !.skipped = me.skipped + 1])

\* raise LogicServiceError("Invalid confirmation token")
CompactionRejectToken(p, me) ==
    /\ Return(p, me, ErrorResp("Invalid confirmation token"))
    /\ UNCHANGED <<confirm_tokens, redeemed>>

\* the synchronous head of apply_compaction: the token check and token_data
CompactionApplyStart(p, token) ==
    /\ proc[p].pc = "idle"
    /\ calls' = calls + 1
    /\ UNCHANGED <<owed, fields, tags, issued, failures>>
    /\ LET me == [IdleProc EXCEPT !.cid = calls + 1, !.kind = "apply", !.token = token] IN
       IF CompactionTokenMissing(token)
       THEN CompactionRejectToken(p, me)
       ELSE LET token_data == confirm_tokens[token] IN
            CompactionApplyNext(p, [me EXCEPT !.deck = token_data.deck, !.field = token_data.field,
                                    !.note_ids = token_data.note_ids,
                                    !.diffs = token_data.diffs])

\* backup_field: await notes_info and the checks on the note
CompactionBackupRead(p) ==
    LET me == proc[p]
        n == me.diffs[me.i].note_id
    IN
    /\ me.pc = "a_bk_read"
    /\ UNCHANGED <<owed, fields, tags, issued, calls>>
    /\ \/ /\ MayFail
          /\ failures' = failures + 1
          /\ CompactionApplySkip(p, [me EXCEPT !.clean = FALSE])
       \/ /\ UNCHANGED failures
          /\ IF BackupUnreadable(n, me.field)
             THEN CompactionApplySkip(p, me)
             ELSE /\ proc' = [proc EXCEPT ![p] =
                                [me EXCEPT !.backup_value = fields[n][me.field],
                                           !.pc = "a_bk_write"]]
                  /\ UNCHANGED <<confirm_tokens, redeemed, returned>>

\* backup_field: await update_note_fields(note_id, {backup_field: backup_value})
CompactionBackupWrite(p) ==
    LET me == proc[p]
        n == me.diffs[me.i].note_id
    IN
    /\ me.pc = "a_bk_write"
    /\ UNCHANGED <<owed, tags, issued, calls>>
    /\ \/ /\ MayFail
          /\ failures' = failures + 1
          /\ UNCHANGED fields
          /\ CompactionApplySkip(p, [me EXCEPT !.clean = FALSE])
       \/ /\ UNCHANGED failures
          /\ fields' = [fields EXCEPT ![n][BackupName(me.field)] = BackupWriteValue(me)]
          /\ proc' = [proc EXCEPT ![p] =
                        [me EXCEPT !.pc = "a_write", !.backed = n, !.wrote = TRUE]]
          /\ UNCHANGED <<confirm_tokens, redeemed, returned>>

\* await update_note_fields(diff.note_id, {field: diff.new})
CompactionApplyWrite(p) ==
    LET me == proc[p]
        n == me.diffs[me.i].note_id
    IN
    /\ me.pc = "a_write"
    /\ UNCHANGED <<owed, tags, issued, calls>>
    /\ \/ /\ MayFail
          /\ failures' = failures + 1
          /\ UNCHANGED fields
          /\ CompactionApplySkip(p, [me EXCEPT !.clean = FALSE])
       \/ /\ UNCHANGED failures
          /\ fields' = [fields EXCEPT ![n][me.field] = me.diffs[me.i].new]
          /\ proc' = [proc EXCEPT ![p] =
                        [me EXCEPT !.pc = "a_tag", !.wrote = TRUE,
                                   !.before = fields[n][me.field]]]
          /\ UNCHANGED <<confirm_tokens, redeemed, returned>>

\* await add_tags([diff.note_id], "compact_examples"), then the counters
CompactionApplyTag(p) ==
    LET me == proc[p]
        n == me.diffs[me.i].note_id
    IN
    /\ me.pc = "a_tag"
    /\ UNCHANGED <<fields, issued, calls>>
    /\ \/ /\ MayFail
          /\ failures' = failures + 1
          /\ UNCHANGED <<tags, owed>>
          /\ CompactionApplySkip(p, [me EXCEPT !.clean = FALSE])
       \/ /\ UNCHANGED failures
          /\ tags' = [tags EXCEPT ![n] = @ \cup {MarkerTag}]
          /\ owed' = [owed EXCEPT ![n] = @ \cup {me.before}]
          /\ CompactionApplyNext(p, [me EXCEPT !.updated = me.updated + 1,
                                     !.tagged = me.tagged + 1, !.wrote = TRUE])

CompactionStartRollback(p, deck, field) ==
    /\ proc[p].pc = "idle"
    /\ proc' = [proc EXCEPT ![p] =
                  [IdleProc EXCEPT !.pc = "r_find", !.cid = calls + 1, !.kind = "rollback",
                                   !.deck = deck, !.field = field,
                                   !.follows = Follows(deck, field)]]
    /\ calls' = calls + 1
    /\ UNCHANGED <<owed, fields, tags, confirm_tokens, returned, issued, redeemed, failures>>

CompactionRollbackFinish(p, me) ==
    Return(p, me, [kind |-> "rollback", restored |-> me.restored, untagged |-> me.untagged])

\* the for loop of rollback_compacted moving to its next note
CompactionRollbackNext(p, me) ==
    IF me.i < Len(me.note_ids)
    THEN /\ proc' = [proc EXCEPT ![p] =
                       [me EXCEPT !.i = me.i + 1, !.pc = "r_info", !.backup_value = <<>>,
                                  !.attempted = me.attempted + 1]]
         /\ UNCHANGED returned
    ELSE CompactionRollbackFinish(p, me)

\* await find_notes_for_rollback
CompactionRollbackFind(p) ==
    LET me == proc[p] IN
    /\ me.pc = "r_find"
    /\ UNCHANGED <<owed, fields, tags, confirm_tokens, issued, redeemed, calls>>
    /\ \/ /\ MayFail
          /\ failures' = failures + 1
          /\ Return(p, [me EXCEPT !.clean = FALSE], ErrorResp("Rollback failed"))
       \/ /\ UNCHANGED failures
          /\ LET ids == find_notes(build_rollback_query(me.deck, me.field,
                                                        BackupName(me.field)))
             IN CompactionRollbackNext(p, [me EXCEPT !.note_ids = ids])

\* await notes_info([note_id]) and the check of the backup field
CompactionRollbackInfo(p) ==
    LET me == proc[p]
        n == me.note_ids[me.i]
        backup_field == BackupName(me.field)
    IN
    /\ me.pc = "r_info"
    /\ UNCHANGED <<owed, fields, tags, confirm_tokens, issued, redeemed, calls>>
    /\ \/ /\ MayFail
          /\ failures' = failures + 1
          /\ CompactionRollbackNext(p, [me EXCEPT !.clean = FALSE])
       \/ /\ UNCHANGED failures
          /\ IF backup_field \notin DOMAIN fields[n] \/ fields[n][backup_field] = <<>>
             THEN CompactionRollbackNext(p, me)
             ELSE /\ proc' = [proc EXCEPT ![p] =
                                [me EXCEPT !.backup_value = fields[n][backup_field],
                                           !.pc = "r_write"]]
                  /\ UNCHANGED returned

\* await update_note_fields(note_id, {field: fields[backup_field]["value"]})
CompactionRollbackWrite(p) ==
    LET me == proc[p]
        n == me.note_ids[me.i]
    IN
    /\ me.pc = "r_write"
    /\ UNCHANGED <<owed, tags, confirm_tokens, issued, redeemed, calls>>
    /\ \/ /\ MayFail
          /\ failures' = failures + 1
          /\ UNCHANGED fields
          /\ CompactionRollbackNext(p, [me EXCEPT !.clean = FALSE])
       \/ /\ UNCHANGED failures
          /\ fields' = [fields EXCEPT ![n][me.field] = me.backup_value]
          /\ proc' = [proc EXCEPT ![p] = [me EXCEPT !.pc = "r_untag"]]
          /\ UNCHANGED returned

\* await remove_tags([note_id], "compact_examples"), then the counters
CompactionRollbackUntag(p) ==
    LET me == proc[p]
        n == me.note_ids[me.i]
    IN
    /\ me.pc = "r_untag"
    /\ UNCHANGED <<fields, confirm_tokens, issued, redeemed, calls>>
    /\ \/ /\ MayFail
          /\ failures' = failures + 1
          /\ UNCHANGED <<tags, owed>>
          /\ CompactionRollbackNext(p, [me EXCEPT !.clean = FALSE])
       \/ /\ UNCHANGED failures
          /\ tags' = [tags EXCEPT ![n] = RemoveTag(@, MarkerTag)]
          /\ owed' = [owed EXCEPT ![n] = {}]
          /\ CompactionRollbackNext(p, [me EXCEPT !.restored = me.restored + 1,
                                        !.untagged = me.untagged + 1])

(***************************************************************************)
(* Specifications                                                          *)
(***************************************************************************)
\* a caller knows the tokens previews returned, and may make one up
CallerTokens == DOMAIN issued \cup {NoToken}

\* every step of a call after its start
Step(p) ==
    \/ PreviewFind(p)
    \/ PreviewInfo(p)
    \/ LlmFirst(p)
    \/ LlmRetry(p)
    \/ LlmSleep(p)
    \/ BackupRead(p)
    \/ BackupWrite(p)
    \/ ApplyWrite(p)
    \/ ApplyTag(p)
    \/ RollbackFind(p)
    \/ RollbackInfo(p)
    \/ RollbackWrite(p)
    \/ RollbackUntag(p)

StartWith(p, limits, preview_counts) ==
    \/ \E deck \in Decks, field \in ContentFields, preview_count \in preview_counts,
          limit \in limits, dry_run \in BOOLEAN :
          StartPreview(p, deck, field, preview_count, limit, dry_run)
    \/ \E token \in CallerTokens : ApplyStart(p, token)
    \/ \E deck \in Decks, field \in ContentFields : StartRollback(p, deck, field)

Start(p, limits) == StartWith(p, limits, PreviewCounts)

\* a new request takes the first free coroutine slot
FirstIdle(p) == \A q \in Procs : proc[q].pc = "idle" => p <= q

\* requests are served concurrently by the event loop
Next ==
    \E p \in Procs :
        \/ calls < MaxCalls /\ FirstIdle(p) /\ Start(p, LimitsOverlap)
        \/ Step(p)

Spec == Init /\ [][Next]_vars

\* requests served one after the other, and apply requests that overlap
\* with them
NextFair ==
    \/ calls < MaxCalls /\ Start(1, LimitsOverlap)
    \/ calls < MaxCalls /\ \E token \in CallerTokens : ApplyStart(2, token)
    \/ \E p \in Procs : Step(p)

\* every remote call a coroutine awaits returns or fails in the end, and the
\* event loop then resumes the coroutine
SpecFair == Init /\ [][NextFair]_vars /\ \A p \in Procs : WF_vars(Step(p))

\* sequential use: a call starts only after the previous one returned
NextSeq ==
    \/ calls < MaxCallsSeq /\ Start(1, Limits)
    \/ Step(1)

SpecSeq == Init /\ [][NextSeq]_vars

\* sequential use, long enough for two previews, two applies and a rollback
NextLong ==
    \/ calls < MaxCallsLong /\ Start(1, Limits)
    \/ Step(1)

SpecLong == Init /\ [][NextLong]_vars

\* get_logic_service of the routers: every request is served by a new
\* LogicService, whose confirm_tokens is empty; the one that served the
\* previous request is dropped
get_logic_service ==
    /\ \A p \in Procs : proc[p].pc = "idle"
    /\ confirm_tokens # <<>>
    /\ confirm_tokens' = <<>>
    /\ UNCHANGED <<fields, tags, proc, returned, issued, redeemed, owed, calls, failures>>

\* requests through the routers, one at a time.  No apply passes the token
\* check of a new LogicService and no note is tagged, so the loops of apply
\* and rollback take no step here.
NextRequests ==
    \/ get_logic_service
    \/ calls < MaxCallsRequests /\ confirm_tokens = <<>> /\ Start(1, Limits)
    \/ PreviewFind(1)
    \/ PreviewInfo(1)
    \/ LlmFirst(1)
    \/ LlmRetry(1)
    \/ LlmSleep(1)
    \/ RollbackFind(1)

SpecRequests == Init /\ [][NextRequests]_vars

\* the notes the Anki user edits while the service runs
EditedNotes == {1, 2}

\* the Anki user empties the field of a note
NoteEdited(n, field) ==
    /\ fields[n][field] # <<>>
    /\ fields' = [fields EXCEPT ![n][field] = <<>>]
    /\ UNCHANGED <<tags, confirm_tokens, proc, returned, issued, redeemed, owed, calls,
                   failures>>

\* sequential use with every kind of limit and preview_count, on notes that
\* are edited in Anki between the steps of the calls
NextEdited ==
    \/ calls < MaxCallsEdited /\ StartWith(1, LimitsWide, PreviewCountsWide)
    \/ Step(1)
    \/ \E n \in EditedNotes, field \in ContentFields : NoteEdited(n, field)

SpecEdited == Init /\ [][NextEdited]_vars

\* the headword fields the Anki user edits, and the values they get: empty,
\* white space only, a word
EditedHeadwords == {<<1, "Word">>, <<1, "Lemma">>, <<2, "Lemma">>, <<2, "Target">>}
HeadwordValues == {<<>>, <<" ">>, <<"Cat">>}

\* the Anki user changes a field of a note
FieldEdited(n, name, value) ==
    /\ fields[n][name] # value
    /\ fields' = [fields EXCEPT ![n][name] = value]
    /\ UNCHANGED <<tags, confirm_tokens, proc, returned, issued, redeemed, owed, calls,
                   failures>>

\* previews, one at a time, of notes whose headword fields are edited in Anki
NextHeadwords ==
    \/ /\ calls < MaxCallsHeadwords
       /\ \E deck \in Decks, field \in ContentFields, dry_run \in BOOLEAN :
             StartPreview(1, deck, field, 1, 2, dry_run)
    \/ PreviewFind(1)
    \/ PreviewInfo(1)
    \/ LlmFirst(1)
    \/ LlmRetry(1)
    \/ LlmSleep(1)
    \/ \E e \in EditedHeadwords, value \in HeadwordValues : FieldEdited(e[1], e[2], value)

SpecHeadwords == Init /\ [][NextHeadwords]_vars

\* the content fields the Anki user edits during list requests, and the
\* values they get: empty, two words, five words
EditedExamples == {<<1, "Example">>, <<2, "Example">>}
ExampleValues == {<<>>, <<"a", "pet">>, <<"one", "Dog", "ran", "off", "down">>}
ListFields == {"Example", "Lemma"}

\* list requests, one at a time, on notes that are edited in Anki
NextList ==
    \/ /\ calls < MaxCallsList
       /\ \E deck \in Decks, field \in ListFields, limit \in LimitsWide :
             StartList(1, deck, field, limit)
    \/ ListFind(1)
    \/ ListDetectFind(1)
    \/ ListDetectInfo(1)
    \/ ListFindDetected(1)
    \/ ListInfo(1)
    \/ \E e \in EditedExamples, value \in ExampleValues : FieldEdited(e[1], e[2], value)

SpecList == Init /\ [][NextList]_vars

\* the store after the Example of note 1 was compacted and rolled back by
\* earlier requests: the note is untagged, its Example is the original again
\* and Example_Original still holds the backup
InitRolledBack ==
    /\ fields = [n \in Notes |->
                   IF n = 1
                   THEN [InitialFields(n) EXCEPT !.Example_Original = InitialFields(n).Example]
                   ELSE InitialFields(n)]
    /\ tags = [n \in Notes |-> InitialTags(n)]
    /\ confirm_tokens = <<>>
    /\ proc = [p \in Procs |-> IdleProc]
    /\ returned = NoOutcome
    /\ issued = <<>>
    /\ redeemed = {}
    /\ owed = [n \in Notes |-> {}]
    /\ calls = 0
    /\ failures = 0

\* sequential use on either content field of the notes
NextFields ==
    \/ /\ calls < MaxCallsFields
       /\ \/ \E deck \in Decks, field \in BothFields, limit \in Limits, dry_run \in BOOLEAN :
                StartPreview(1, deck, field, 1, limit, dry_run)
          \/ \E token \in CallerTokens : ApplyStart(1, token)
          \/ \E deck \in Decks, field \in BothFields : StartRollback(1, deck, field)
    \/ Step(1)

SpecFields == InitRolledBack /\ [][NextFields]_vars

\* every step of a CompactionService call after its start
CompactionStep(p) ==
    \/ CompactionPreviewFind(p)
    \/ CompactionPreviewInfo(p)
    \/ CompactionLlmFirst(p)
    \/ CompactionLlmRetry(p)
    \/ CompactionLlmSleep(p)
    \/ CompactionBackupRead(p)
    \/ CompactionBackupWrite(p)
    \/ CompactionApplyWrite(p)
    \/ CompactionApplyTag(p)
    \/ CompactionRollbackFind(p)
    \/ CompactionRollbackInfo(p)
    \/ CompactionRollbackWrite(p)
    \/ CompactionRollbackUntag(p)

CompactionStart(p, limits) ==
    \/ \E deck \in Decks, field \in ContentFields, preview_count \in PreviewCounts,
          limit \in limits, dry_run \in BOOLEAN :
          CompactionStartPreview(p, deck, field, preview_count, limit, dry_run)
    \/ \E token \in CallerTokens : CompactionApplyStart(p, token)
    \/ \E deck \in Decks, field \in ContentFields : CompactionStartRollback(p, deck, field)

\* the two services side by side: from every state either of them takes the
\* next step of the call, on the same store, pending batches and LLM answers
NextBoth ==
    \/ calls < MaxCallsSeq /\ Start(1, Limits)
    \/ Step(1)
    \/ calls < MaxCallsSeq /\ CompactionStart(1, Limits)
    \/ CompactionStep(1)

SpecBoth == Init /\ [][NextBoth]_vars

TypeOK ==
    /\ calls \in 0..MaxCallsLong
    /\ failures \in 0..MaxFailures
    /\ DOMAIN confirm_tokens \subseteq DOMAIN issued
    /\ \A p \in Procs : proc[p].pc \in
          {"idle", "p_find", "p_info", "p_llm1", "p_llm2", "p_sleep",
           "a_bk_read", "a_bk_write", "a_write", "a_tag",
           "r_find", "r_info", "r_write", "r_untag",
           "l_find", "l_detect_find", "l_detect_info", "l_find2", "l_info"}

(***************************************************************************)
(* Properties                                                              *)
(***************************************************************************)
InvalidToken == ErrorResp("Invalid confirmation token")

\* the step starts an apply(token) call: the call either enters its loop or
\* returns at once
StartsApply(token) ==
    /\ calls' = calls + 1
    /\ \/ \E p \in Procs : /\ proc[p].pc = "idle"
                           /\ proc'[p].kind = "apply"
                           /\ proc'[p].token = token
       \/ /\ proc' = proc
          /\ returned'.kind = "apply"
          /\ returned'.token = token

\* the step is one of call p
StepOf(p) == proc'[p] # proc[p]

\* C1: in sequential use a token whose apply returned a summary is no longer
\* in confirm_tokens, and every later apply with it raises the invalid-token
\* error and changes neither the notes nor confirm_tokens.
C1_RedeemedOnce ==
    /\ [](redeemed \cap DOMAIN confirm_tokens = {})
    /\ [][\A token \in redeemed :
            StartsApply(token) =>
                /\ returned'.resp = InvalidToken
                /\ UNCHANGED <<fields, tags, confirm_tokens>>]_vars

C1_Witness ==
    /\ returned.kind = "apply"
    /\ returned.token \in redeemed
    /\ returned.resp = InvalidToken

\* C2: of two overlapping apply calls on the same token at most one writes
\* to the note store.
C2_OneWriter ==
    \A p, q \in Procs :
        (/\ p # q
         /\ proc[p].kind = "apply"
         /\ proc[q].kind = "apply"
         /\ proc[p].token = proc[q].token)
        => ~(proc[p].wrote /\ proc[q].wrote)

\* C3: in apply the rewritten text is written into a note's field only after
\* the backup write for that note succeeded in the same pass of the loop, and
\* the backup write stores the value of the field that the pass read.
C3_BackupFirst ==
    [][\A p \in Procs :
        (proc[p].kind = "apply" /\ StepOf(p)) =>
            LET me == proc[p]
                n == me.diffs[me.i].note_id
            IN
            \* the value read is the field's value in the store
            /\ (me.pc = "a_bk_read" /\ proc'[p].pc = "a_bk_write")
                  => proc'[p].backup_value = fields[n][me.field]
            \* the backup write stores the value read and leaves the field
            /\ (me.pc = "a_bk_write" /\ proc'[p].pc = "a_write")
                  => /\ fields'[n][BackupName(me.field)] = me.backup_value
                     /\ fields'[n][me.field] = fields[n][me.field]
            \* the field changes only in the write that follows the backup
            /\ \A m \in Notes :
                  fields'[m][me.field] # fields[m][me.field]
                      => /\ me.pc = "a_write"
                         /\ m = n
                         /\ me.backed = n
                         /\ fields'[m][me.field] = me.diffs[me.i].new]_vars

C3_Witness ==
    \E p \in Procs :
        /\ proc[p].pc = "a_tag"
        /\ LET me == proc[p]
               n == me.diffs[me.i].note_id
           IN /\ me.backed = n
              /\ fields[n][me.field] = me.diffs[me.i].new
              /\ fields[n][BackupName(me.field)] = me.diffs[me.i].old
              /\ me.diffs[me.i].new # me.diffs[me.i].old

\* the step is call p's remote call at position pc, and the call succeeded
Succeeds(p, pc) == proc[p].pc = pc /\ StepOf(p) /\ failures' = failures

\* C4: when a rollback counts a note as restored, the note's field holds the
\* value it held before each apply that counted the note as updated.
C4_RoundTrip ==
    [][\A p \in Procs :
        (proc[p].kind = "rollback" /\ Succeeds(p, "r_untag")) =>
            LET n == proc[p].note_ids[proc[p].i] IN
            \A v \in owed[n] : fields'[n][proc[p].field] = v]_vars

\* C5: a rewritten text is written into a note's field only by an apply
\* whose token was stored by a preview with dry_run false, with a batch that
\* holds this edit.
Confirmed(token, n, f, text) ==
    /\ token \in DOMAIN issued
    /\ ~issued[token].dry_run
    /\ issued[token].batch.field = f
    /\ \E k \in 1..Len(issued[token].batch.diffs) :
          /\ issued[token].batch.diffs[k].note_id = n
          /\ issued[token].batch.diffs[k].new = text

C5_ConfirmedOnly ==
    [][\A p \in Procs :
        /\ \A n \in Notes, f \in ContentFields :
              (StepOf(p) /\ proc[p].kind # "rollback" /\ fields'[n][f] # fields[n][f])
                  => /\ proc[p].kind = "apply"
                     /\ Confirmed(proc[p].token, n, f, fields'[n][f])
        /\ (proc[p].kind = "apply" /\ Succeeds(p, "a_write"))
              => LET n == proc[p].diffs[proc[p].i].note_id IN
                 Confirmed(proc[p].token, n, proc[p].field, fields'[n][proc[p].field])]_vars

C5_Witness ==
    /\ returned.kind = "apply"
    /\ returned.resp.kind = "apply"
    /\ returned.resp.updated > 0
    /\ \E n \in Notes :
          /\ fields[n][returned.field] # InitialFields(n)[returned.field]
          /\ Confirmed(returned.token, n, returned.field, fields[n][returned.field])

\* C6: no step of a preview, dry run or not, changes a note's fields or tags.
C6_PreviewReadOnly ==
    [][\A p \in Procs :
        (StepOf(p) /\ (proc[p].kind = "preview" \/ proc'[p].kind = "preview"))
            => UNCHANGED <<fields, tags>>]_vars

C6_Witness ==
    /\ returned.kind = "preview"
    /\ ~returned.dry_run
    /\ returned.resp.kind = "preview"
    /\ returned.resp.count = 2
    /\ returned.resp.confirm_token # NoToken
    /\ calls >= 2
    /\ fields = [n \in Notes |-> InitialFields(n)]
    /\ tags = [n \in Notes |-> InitialTags(n)]

\* C7: an apply that returns a summary has updated + skipped equal to the
\* number of edits of its batch.
C7_CountsAddUp ==
    (returned.kind = "apply" /\ returned.resp.kind = "apply")
        => returned.resp.updated + returned.resp.skipped = returned.nedits

C7_Witness ==
    /\ returned.kind = "apply"
    /\ returned.resp.kind = "apply"
    /\ returned.resp.updated = 1
    /\ returned.resp.skipped = 1

\* C8: an apply with a token that is not in confirm_tokens raises the
\* invalid-token error and changes neither the notes nor confirm_tokens.
C8_UnknownToken ==
    [][\A token \in CallerTokens :
        (StartsApply(token) /\ token \notin DOMAIN confirm_tokens) =>
            /\ returned'.resp = InvalidToken
            /\ UNCHANGED <<fields, tags, confirm_tokens, proc>>]_vars

C8_Witness ==
    /\ returned.kind = "apply"
    /\ returned.token = NoToken
    /\ returned.resp = InvalidToken
    /\ confirm_tokens # <<>>

\* the step is one of a rollback that started right after a rollback of the
\* same deck and field returned
SecondRollback(p) == proc[p].kind = "rollback" /\ StepOf(p) /\ proc[p].follows # "other"

NothingRestored(p) ==
    /\ UNCHANGED <<fields, tags>>
    /\ (proc'[p].pc = "idle" /\ returned'.resp.kind = "rollback")
          => (returned'.resp.restored = 0 /\ returned'.resp.untagged = 0)

C10_ContinueOnError ==
    /\ returned.kind = "apply" =>
          IF returned.resp.kind = "apply"
          THEN returned.attempted = returned.nedits
          ELSE /\ returned.token \notin DOMAIN confirm_tokens
               /\ \/ returned.resp = InvalidToken /\ returned.attempted = 0
                  \/ /\ returned.resp = ErrorResp("Application failed")
                     /\ returned.attempted = returned.nedits
    /\ returned.kind = "rollback" =>
          IF returned.resp.kind = "rollback"
          THEN returned.attempted = returned.nfound
          ELSE returned.attempted = 0 /\ returned.nfound = 0

C10_Witness ==
    /\ returned.kind = "apply"
    /\ returned.resp.kind = "apply"
    /\ ~returned.clean
    /\ returned.nedits = 2
    /\ returned.attempted = 2
    /\ MarkerTag \notin tags[1]
    /\ MarkerTag \in tags[2]

\* C11: a call during which a remote call (note store or LLM) failed returns
\* an error to its caller, never a response.
C11_TransportErrorFatal ==
    (returned.kind # "none" /\ ~returned.clean) => returned.resp.kind = "error"

\* the step is the return of preview call p
PreviewReturns(p) == proc[p].kind = "preview" /\ StepOf(p) /\ proc'[p].pc = "idle"

C13_TokenFound ==
    [][\A token \in DOMAIN issued \ redeemed :
        StartsApply(token) =>
            /\ token \in DOMAIN confirm_tokens
            /\ \E p \in Procs : proc'[p].kind = "apply" /\ proc'[p].token = token]_vars

\* C14: every rollback summary has restored = untagged, and restore and
\* untag are one unit: once a rollback wrote the backup into a note's field,
\* its next step removes the note's marker tag, so that no note it restored
\* still carries the tag when it returns.
C14_RestoreUntagUnit ==
    /\ []((returned.kind = "rollback" /\ returned.resp.kind = "rollback")
            => returned.resp.restored = returned.resp.untagged)
    /\ [][\A p \in Procs :
            (proc[p].kind = "rollback" /\ proc[p].pc = "r_untag" /\ StepOf(p))
                => MarkerTag \notin tags'[proc[p].note_ids[proc[p].i]]]_vars

\* counter c of apply call p after a step of the call: in the call's
\* variables, or in the summary when the step returned
CounterAfter(p, c) == IF proc'[p].pc = "idle" THEN returned'.resp[c] ELSE proc'[p][c]

\* C15: the counts of an ApplySummary are exact.  updated counts the notes
\* whose field the call overwrote with the new text: it grows by one for the
\* note whose field the call has just overwritten (the call stands at its
\* add_tags) and in no other step; tagged grows by one exactly when the
\* call's add_tags succeeded.
C15_ExactCounts ==
    [][\A p \in Procs :
        (proc[p].kind = "apply" /\ StepOf(p)) =>
            /\ CounterAfter(p, "updated") =
                  proc[p].updated + (IF proc[p].pc = "a_tag" THEN 1 ELSE 0)
            /\ CounterAfter(p, "tagged") =
                  proc[p].tagged + (IF Succeeds(p, "a_tag") THEN 1 ELSE 0)]_vars

Min(a, b) == IF a <= b THEN a ELSE b

\* a count asked for: a negative number asks for none
AsCount(k) == IF k < 0 THEN 0 ELSE k

\* the position of note n in the list ids
PosIn(n, ids) == CHOOSE k \in 1..Len(ids) : ids[k] = n

\* the notes of the edits are notes of ids, in the order of ids
InOrderOf(edits, ids) ==
    /\ \A k \in 1..Len(edits) : \E j \in 1..Len(ids) : ids[j] = edits[k].note_id
    /\ \A j, k \in 1..Len(edits) :
          j < k => PosIn(edits[j].note_id, ids) < PosIn(edits[k].note_id, ids)

\* the results so far that succeeded are the first edits, in the same order
SucceededFirst(results, edits) ==
    LET ok == SelectSeq(results, LAMBDA r : r.success) IN
    /\ Len(edits) \in {Len(ok), Len(ok) + 1}
    /\ \A k \in 1..Len(ok) :
          /\ edits[k].note_id = ok[k].note_id
          /\ edits[k].old = ok[k].original
          /\ edits[k].new = ok[k].compacted

\* C16: a preview response has count = the number of edits (the rewrites
\* that succeeded) and shows the first min(preview_count, count) of them
\* (none of them for a negative preview_count), in
\* the order in which the store returned the notes; the batch stored under
\* the token holds all count edits in that order; an apply takes the stored
\* edits one after the other in that order and writes only to the note of
\* the edit it stands at.
C16_PreviewOrder ==
    [][\A p \in Procs :
        /\ (PreviewReturns(p) /\ returned'.resp.kind = "preview" /\ returned'.resp.count > 0) =>
              LET resp == returned'.resp
                  me == proc[p]
              IN
              /\ Len(resp.diffs) = Min(AsCount(me.preview_count), resp.count)
              /\ InOrderOf(resp.diffs, me.note_ids)
              /\ SucceededFirst(me.results, resp.diffs)
                    \/ Len(resp.diffs) < resp.count
              /\ resp.confirm_token # NoToken =>
                    LET batch == confirm_tokens'[resp.confirm_token] IN
                    /\ Len(batch.diffs) = resp.count
                    /\ resp.diffs = SubSeq(batch.diffs, 1, Len(resp.diffs))
                    /\ InOrderOf(batch.diffs, me.note_ids)
                    /\ SucceededFirst(me.results, batch.diffs)
                    /\ batch.note_ids = [k \in 1..Len(batch.diffs) |-> batch.diffs[k].note_id]
        /\ \A token \in DOMAIN confirm_tokens :
              (proc[p].pc = "idle" /\ proc'[p].kind = "apply" /\ proc'[p].token = token) =>
                  /\ proc'[p].diffs = confirm_tokens[token].diffs
                  /\ proc'[p].i = 1
        /\ (proc[p].kind = "apply" /\ StepOf(p)) =>
              LET me == proc[p] IN
              /\ proc'[p].pc # "idle" =>
                    /\ proc'[p].diffs = me.diffs
                    /\ proc'[p].i \in {me.i, me.i + 1}
              /\ proc'[p].pc = "idle" => me.i = Len(me.diffs)
              /\ \A n \in Notes :
                    (fields'[n] # fields[n] \/ tags'[n] # tags[n])
                        => n = me.diffs[me.i].note_id]_vars

C16_Witness ==
    /\ returned.kind = "preview"
    /\ returned.resp.kind = "preview"
    /\ returned.resp.count = 2
    /\ Len(returned.resp.diffs) = 1
    /\ proc[1].kind = "apply"
    /\ proc[1].token = returned.resp.confirm_token
    /\ proc[1].i = 2
    /\ fields[proc[1].diffs[1].note_id][proc[1].field] = proc[1].diffs[1].new
    /\ fields[proc[1].diffs[2].note_id][proc[1].field] = proc[1].diffs[2].old

\* C17: an entry of confirm_tokens stays as it was created until the step in
\* which an apply of that very token returns its summary and removes it; no
\* other step (of a preview, a rollback, a rejected apply, an apply of another
\* token) removes or changes it.  A new entry is added only by a returning
\* preview and holds the batch that this preview built from its own
\* arguments and notes, so no two tokens share a batch.
C17_TokenStoreFrame ==
    [][/\ \A t \in DOMAIN confirm_tokens :
            \/ t \in DOMAIN confirm_tokens' /\ confirm_tokens'[t] = confirm_tokens[t]
            \/ /\ t \notin DOMAIN confirm_tokens'
               /\ \E p \in Procs :
                     /\ proc[p].kind = "apply"
                     /\ proc[p].token = t
                     /\ StepOf(p)
                     /\ proc'[p].pc = "idle"
                     /\ returned'.resp.kind = "apply"
       /\ \A t \in DOMAIN confirm_tokens : confirm_tokens[t] = issued[t].batch
       /\ \A t \in DOMAIN confirm_tokens' \ DOMAIN confirm_tokens :
            \E p \in Procs :
                /\ PreviewReturns(p)
                /\ returned'.resp.confirm_token = t
                /\ confirm_tokens'[t].deck = proc[p].deck
                /\ confirm_tokens'[t].field = proc[p].field
                /\ InOrderOf(confirm_tokens'[t].diffs, proc[p].note_ids)]_vars

C17_Witness ==
    /\ returned.kind = "apply"
    /\ returned.resp.kind = "apply"
    /\ returned.token \in DOMAIN issued
    /\ returned.token \notin DOMAIN confirm_tokens
    /\ \E t \in DOMAIN confirm_tokens : confirm_tokens[t] = issued[t].batch

\* the step is the failing backup step of apply call p for the note of its
\* current edit: the field is empty when it is read, the read fails or the
\* write of the backup fails
BackupFails(p) ==
    /\ proc[p].kind = "apply"
    /\ StepOf(p)
    /\ \/ /\ proc[p].pc = "a_bk_read"
          /\ \/ failures' # failures
             \/ fields[proc[p].diffs[proc[p].i].note_id][proc[p].field] = <<>>
       \/ /\ proc[p].pc = "a_bk_write"
          /\ failures' # failures

\* C18: when the backup step fails for a note in an apply, the note is
\* counted as skipped and not as updated, and the call leaves the note: it
\* goes to its next edit (or returns) without writing the new text or the
\* tag, and the note's fields and tags are as they were.  No later edit of
\* the batch is for the same note.
C18_FailedBackupSkips ==
    [][\A p \in Procs :
        BackupFails(p) =>
            LET me == proc[p]
                n == me.diffs[me.i].note_id
            IN
            /\ CounterAfter(p, "skipped") = me.skipped + 1
            /\ CounterAfter(p, "updated") = me.updated
            /\ CounterAfter(p, "tagged") = me.tagged
            /\ fields'[n] = fields[n]
            /\ tags'[n] = tags[n]
            /\ proc'[p].pc # "idle" => (proc'[p].pc = "a_bk_read" /\ proc'[p].i = me.i + 1)
            /\ \A k \in 1..Len(me.diffs) : k # me.i => me.diffs[k].note_id # n]_vars

C18_Witness ==
    /\ returned.kind = "apply"
    /\ returned.resp.kind = "apply"
    /\ returned.clean
    /\ returned.resp.updated = 1
    /\ returned.resp.skipped = 1
    /\ \E n \in Notes : /\ fields[n][returned.field] = <<>>
                         /\ fields[n][BackupName(returned.field)] = <<>>
                         /\ MarkerTag \notin tags[n]

\* note n can be rolled back by rollback(deck, field): it is in the deck,
\* carries the marker tag and has a non-empty backup field
Eligible(n, deck, field) ==
    /\ DeckOf(n) = deck
    /\ MarkerTag \in tags[n]
    /\ fields[n][BackupName(field)] # <<>>

\* C19: a step of rollback(deck, field) changes a note only if the note is
\* eligible; it then writes the backup into the field or removes the marker
\* tag, and nothing else: no other field (the backup field included) is
\* changed or removed, and confirm_tokens is unchanged.
C19_RollbackFrame ==
    [][\A p \in Procs :
        (StepOf(p) /\ (proc[p].kind = "rollback" \/ proc'[p].kind = "rollback")) =>
            LET me == IF proc[p].kind = "rollback" THEN proc[p] ELSE proc'[p] IN
            /\ UNCHANGED confirm_tokens
            /\ \A n \in Notes :
                  /\ DOMAIN fields'[n] = DOMAIN fields[n]
                  /\ \A f \in DOMAIN fields[n] :
                        fields'[n][f] # fields[n][f]
                            => /\ f = me.field
                               /\ Eligible(n, me.deck, me.field)
                               /\ fields'[n][f] = fields[n][BackupName(me.field)]
                  /\ tags'[n] # tags[n]
                        => /\ Eligible(n, me.deck, me.field)
                           /\ tags'[n] = tags[n] \ {MarkerTag}]_vars

C19_Witness ==
    /\ returned.kind = "rollback"
    /\ returned.resp.kind = "rollback"
    /\ returned.resp.restored = 1
    /\ confirm_tokens # <<>>
    /\ fields[3] = InitialFields(3)
    /\ tags[3] = InitialTags(3)
    /\ \E n \in Notes :
          /\ DeckOf(n) = returned.deck
          /\ MarkerTag \notin tags[n]
          /\ fields[n][BackupName(returned.field)] # <<>>
          /\ fields[n][returned.field] = fields[n][BackupName(returned.field)]

\* note n is a candidate of preview(deck, field): it is in the deck, its
\* field is not empty and it does not carry the marker tag
Candidate(n, deck, field) ==
    /\ DeckOf(n) = deck
    /\ fields[n][field] # <<>>
    /\ MarkerTag \notin tags[n]

\* C20: the notes a preview takes from its query are candidates in the store
\* as it is at the query, and at most limit of them (none for a negative
\* limit); the notes it fetches,
\* passes to the LLM and puts into its batch are among these, so the batch
\* holds at most limit edits.
C20_CandidateSelection ==
    [][\A p \in Procs :
        (StepOf(p) /\ proc[p].kind = "preview") =>
            LET me == proc[p]
                after == proc'[p]
            IN
            /\ me.pc = "p_find" =>
                  /\ Len(after.note_ids) <= AsCount(me.limit)
                  /\ \A k \in 1..Len(after.note_ids) :
                        Candidate(after.note_ids[k], me.deck, me.field)
            /\ (me.pc # "p_find" /\ after.pc # "idle") => after.note_ids = me.note_ids
            /\ after.pc # "idle" =>
                  /\ InOrderOf(after.sentences, after.note_ids)
                  /\ Len(after.results) <= Len(after.sentences)
                  /\ \A k \in 1..Len(after.results) :
                        after.results[k].note_id = after.sentences[k].note_id
            /\ (after.pc = "idle" /\ returned'.resp.kind = "preview") =>
                  /\ returned'.resp.count <= AsCount(me.limit)
                  /\ InOrderOf(returned'.resp.diffs, me.note_ids)
                  /\ returned'.resp.confirm_token # NoToken =>
                        LET batch == confirm_tokens'[returned'.resp.confirm_token] IN
                        /\ Len(batch.diffs) <= AsCount(me.limit)
                        /\ InOrderOf(batch.diffs, me.note_ids)]_vars

C20_Witness ==
    /\ returned.kind = "preview"
    /\ returned.resp.kind = "preview"
    /\ returned.resp.count = 1
    /\ returned.resp.confirm_token \in DOMAIN confirm_tokens
    /\ \E n, m \in Notes :
          /\ n # m
          /\ confirm_tokens[returned.resp.confirm_token].note_ids = <<n>>
          /\ DeckOf(m) = returned.deck
          /\ MarkerTag \in tags[m]
          /\ fields[m][returned.field] # <<>>

\* the step of call p is a request to the LLM (the first one for a sentence
\* or the retry)
LlmCall(p) == proc[p].kind = "preview" /\ StepOf(p) /\ proc[p].pc \in {"p_llm1", "p_llm2"}

\* C21: after a request to the LLM a preview does not go on to its next
\* request (the retry, or the first request for the next sentence) at once:
\* its next step is the sleep or its return.
C21_Pacing ==
    [][\A p \in Procs : LlmCall(p) => proc'[p].pc \notin {"p_llm1", "p_llm2"}]_vars

\* the text mentions the (one-word) headword, in any case
Mentions(word, text) == \E k \in 1..Len(text) : Lower(text[k]) = Lower(word[1])

\* C22: a preview sends the first request for each of its sentences once,
\* in turn, and a retry only right after a first answer of the same sentence
\* that it did not accept, never a second retry; a result counts as
\* succeeded, and an edit enters the response and the batch, only with a
\* text that mentions the headword; after a sentence that failed the
\* preview goes on, and when it returns a response it has a result for every
\* sentence.
C22_HeadwordRetry ==
    [][\A p \in Procs :
        (StepOf(p) /\ proc[p].kind = "preview") =>
            LET me == proc[p]
                after == proc'[p]
            IN
            /\ after.pc = "p_llm1" =>
                  /\ after.i = (IF me.pc = "p_info" THEN 1 ELSE me.i + 1)
                  /\ after.i <= Len(after.sentences)
                  /\ Len(after.results) = after.i - 1
            /\ after.pc = "p_llm2" =>
                  /\ me.pc = "p_llm1"
                  /\ after.i = me.i
                  /\ after.results = me.results
                  /\ failures' = failures
            /\ \A k \in 1..Len(after.results) :
                  LET r == after.results[k] IN
                  /\ r.note_id = after.sentences[k].note_id
                  /\ r.success => Mentions(r.target, r.compacted)
            /\ (after.pc = "idle" /\ returned'.resp.kind = "preview"
                  /\ me.pc \in {"p_llm1", "p_llm2"}) =>
                  /\ me.i = Len(me.sentences)
                  /\ Len(me.results) = Len(me.sentences) - 1
                  /\ \A k \in 1..Len(returned'.resp.diffs) :
                        Mentions(returned'.resp.diffs[k].word, returned'.resp.diffs[k].new)
                  /\ returned'.resp.confirm_token # NoToken =>
                        \A k \in 1..Len(confirm_tokens'[returned'.resp.confirm_token].diffs) :
                           LET d == confirm_tokens'[returned'.resp.confirm_token].diffs[k] IN
                           Mentions(d.word, d.new)]_vars

\* a preview of two notes returned one edit although no remote call failed:
\* the other note's answers lacked the headword twice
C22_Witness ==
    /\ returned.kind = "preview"
    /\ returned.resp.kind = "preview"
    /\ returned.clean
    /\ failures = 0
    /\ returned.nfound = 2
    /\ returned.resp.count = 1
    /\ returned.resp.confirm_token \in DOMAIN confirm_tokens

\* the headword fields of note n that hold a value (more than white space),
\* by priority
FilledHeadwords(n) ==
    {k \in 1..Len(HeadwordFields) : Strip(fields[n][HeadwordFields[k]]) # <<>>}

\* the value of the first headword field of note n that holds one
FirstFilled(n) ==
    fields[n][HeadwordFields[CHOOSE k \in FilledHeadwords(n) :
                                \A j \in FilledHeadwords(n) : k <= j]]

\* C23: when a preview has fetched its notes, it goes on with exactly those
\* of them that have a non-empty content field and a value (more than white
\* space) in one of Word, Lemma, Target, Headword, each with the first such
\* value (without surrounding white space) as its headword; the other notes
\* are left out and the preview still returns a response.
C23_HeadwordExtraction ==
    [][\A p \in Procs :
        Succeeds(p, "p_info") =>
            LET me == proc[p]
                after == proc'[p]
                kept == {after.sentences[k].note_id : k \in 1..Len(after.sentences)}
            IN
            /\ \A k \in 1..Len(me.note_ids) :
                  LET n == me.note_ids[k] IN
                  n \in kept <=> (fields[n][me.field] # <<>> /\ FilledHeadwords(n) # {})
            /\ \A k \in 1..Len(after.sentences) :
                  after.sentences[k].target = Strip(FirstFilled(after.sentences[k].note_id))
            /\ after.pc = "idle" => returned'.resp = EmptyPreview]_vars

\* C24: when every awaited remote call returns or fails in the end, every
\* call that was started returns (a result or an error), and the token of an
\* apply that passed the token check ends up removed from confirm_tokens.
C24_Termination ==
    /\ \A p \in Procs : (proc[p].pc # "idle") ~> (proc[p].pc = "idle")
    /\ \A token \in 1..(MaxCalls - 1) :
          (\E p \in Procs : proc[p].kind = "apply" /\ proc[p].token = token)
             ~> (token \notin DOMAIN confirm_tokens)

\* an apply went through a batch of two notes, returned its summary and its
\* token is gone
C24_Witness ==
    /\ returned.kind = "apply"
    /\ returned.resp.kind = "apply"
    /\ returned.attempted = 2
    /\ returned.token \notin DOMAIN confirm_tokens
    /\ \A p \in Procs : proc[p].pc = "idle"

\* the notes of the deck whose field is not empty
WithField(deck, field) ==
    {n \in Notes : DeckOf(n) = deck /\ field \in DOMAIN fields[n] /\ fields[n][field] # <<>>}

\* C25: a list response holds at most limit items (none for a negative
\* limit), the longest first; every item is a note of the deck with its
\* non-empty value of the requested field and that value's word count;
\* total_found counts such notes and the items are the first
\* min(limit, total_found) of them; when no note of the deck has a value in
\* the field, the response is empty with total_found 0.
C25_ListLongest ==
    [][\A p \in Procs :
        (StepOf(p) /\ proc[p].kind = "list" /\ proc'[p].pc = "idle"
           /\ returned'.resp.kind = "list") =>
            LET me == proc[p]
                resp == returned'.resp
                matching == WithField(me.deck, me.field)
            IN
            /\ Len(resp.items) = Min(AsCount(me.limit), resp.total_found)
            /\ \A j, k \in 1..Len(resp.items) :
                  j < k => /\ resp.items[j].length >= resp.items[k].length
                           /\ resp.items[j].note_id # resp.items[k].note_id
            /\ \A k \in 1..Len(resp.items) :
                  /\ resp.items[k].note_id \in matching
                  /\ resp.items[k].example = fields[resp.items[k].note_id][me.field]
                  /\ resp.items[k].length = WordCount(resp.items[k].example)
            /\ resp.total_found <= Cardinality(matching)
            /\ (me.pc = "l_info" /\ me.note_ids = SortedSeq(matching)) =>
                  resp.total_found = Cardinality(matching)
            /\ matching = {} => resp = EmptyList]_vars

\* the texts that previews proposed for field f of note n
Proposed(n, f) ==
    UNION {{issued[t].batch.diffs[k].new :
               k \in {j \in 1..Len(issued[t].batch.diffs) :
                         issued[t].batch.diffs[j].note_id = n}} :
           t \in {u \in DOMAIN issued : issued[u].batch.field = f}}

\* C26: a note of the deck that carries the marker tag holds in
\* <field>_Original the text its field had before it was compacted (the
\* calls are the only writers here, so that is the text the note started
\* with); and a backup write of an apply never stores a text that a preview
\* proposed as a rewrite.
C26_OriginalRecoverable ==
    /\ [](\A n \in EditedNotes, f \in ContentFields :
            MarkerTag \in tags[n] => fields[n][BackupName(f)] = InitialFields(n)[f])
    /\ [][\A p \in Procs :
            Succeeds(p, "a_bk_write") =>
                LET n == proc[p].diffs[proc[p].i].note_id
                    f == proc[p].field
                IN fields'[n][BackupName(f)] \notin Proposed(n, f)]_vars

\* C27: when an apply is done with a note whose field it overwrote with the
\* new text (it leaves the add_tags call of that note), the note carries the
\* marker tag and a non-empty <field>_Original, so it matches the rollback
\* query of its deck and field and no longer the preview query.
C27_CompactedEligible ==
    [][\A p \in Procs :
        (proc[p].kind = "apply" /\ StepOf(p) /\ proc[p].pc = "a_tag") =>
            LET me == proc[p]
                n == me.diffs[me.i].note_id
            IN
            /\ fields'[n][me.field] = me.diffs[me.i].new
            /\ MarkerTag \in tags'[n]
            /\ fields'[n][BackupName(me.field)] # <<>>]_vars

\* C28: every note of the deck that carries the marker tag has a non-empty
\* <field>_Original.
C28_TagImpliesBackup ==
    \A n \in EditedNotes, f \in ContentFields :
        MarkerTag \in tags[n] => fields[n][BackupName(f)] # <<>>

\* an apply returned and left a tagged note, whose backup is filled
C28_Witness ==
    /\ returned.kind = "apply"
    /\ returned.resp.kind = "apply"
    /\ returned.resp.tagged >= 1
    /\ \E n \in EditedNotes, f \in ContentFields :
          /\ MarkerTag \in tags[n]
          /\ fields[n][BackupName(f)] # <<>>

\* C29: a rollback of field F writes F of a note only when F holds a text
\* that a preview proposed for it (the text an apply wrote), and removes the
\* marker tag of a note only when no other content field of the note holds
\* such a compacted text.
C29_RollbackOnlyCompacted ==
    [][\A p \in Procs :
        LET me == proc[p]
            n == me.note_ids[me.i]
        IN
        /\ (me.kind = "rollback" /\ Succeeds(p, "r_write")) =>
              fields[n][me.field] \in Proposed(n, me.field)
        /\ (me.kind = "rollback" /\ Succeeds(p, "r_untag")) =>
              \A g \in BothFields \ {me.field} : fields[n][g] \notin Proposed(n, g)]_vars

\* C30: from every state, each start and each step of a LogicService call
\* leads to exactly the states to which the same start or step of a
\* CompactionService call leads: the same store operation with the same
\* outcome, the same pending batches, the same response or error message.
C30_ServicesEquivalent ==
    [][/\ \A deck \in Decks, field \in ContentFields, preview_count \in PreviewCounts,
            limit \in Limits, dry_run \in BOOLEAN :
            StartPreview(1, deck, field, preview_count, limit, dry_run)
               <=> CompactionStartPreview(1, deck, field, preview_count, limit, dry_run)
       /\ \A token \in 0..MaxCallsSeq :
            ApplyStart(1, token) <=> CompactionApplyStart(1, token)
       /\ \A deck \in Decks, field \in ContentFields :
            StartRollback(1, deck, field) <=> CompactionStartRollback(1, deck, field)
       /\ PreviewFind(1) <=> CompactionPreviewFind(1)
       /\ PreviewInfo(1) <=> CompactionPreviewInfo(1)
       /\ LlmFirst(1) <=> CompactionLlmFirst(1)
       /\ LlmRetry(1) <=> CompactionLlmRetry(1)
       /\ LlmSleep(1) <=> CompactionLlmSleep(1)
       /\ BackupRead(1) <=> CompactionBackupRead(1)
       /\ BackupWrite(1) <=> CompactionBackupWrite(1)
       /\ ApplyWrite(1) <=> CompactionApplyWrite(1)
       /\ ApplyTag(1) <=> CompactionApplyTag(1)
       /\ RollbackFind(1) <=> CompactionRollbackFind(1)
       /\ RollbackInfo(1) <=> CompactionRollbackInfo(1)
       /\ RollbackWrite(1) <=> CompactionRollbackWrite(1)
       /\ RollbackUntag(1) <=> CompactionRollbackUntag(1)]_vars

\* a preview, an apply with a skipped note and a rollback that restored a
\* note have run
C30_Witness ==
    /\ returned.kind = "rollback"
    /\ returned.resp.kind = "rollback"
    /\ returned.resp.restored = 1
    /\ failures = 1
    /\ redeemed # {}

====
